---- MODULE Spec2Model ----
(***************************************************************************)
(* Model of platforms/hackerone.py: the HackerOneAPI client.               *)
(*   - _build_url / get : URL resolution and one GET through the session   *)
(*   - paginate         : cursor-following loop with a page-count cap      *)
(*   - program_info     : paginate + flattening of the pages' data arrays  *)
(*   - brief            : pure reshaping of resources into summaries       *)
(* Strings whose characters the code inspects (endpoints, URLs) are        *)
(* sequences of one-character strings.  JSON values are tagged records:    *)
(* t = "missing" (key absent), "null" (JSON null), or the value's kind.    *)
(***************************************************************************)
EXTENDS Integers, Sequences, FiniteSets, TLC

VARIABLES
    pc,             \* position of the call: "idle", "loop", "done", "raised"
    op,             \* which operation was called: "none", "paginate", "program_info"
    arg_endpoint,   \* paginate's endpoint argument
    arg_params,     \* paginate's params argument
    max_pages,      \* paginate's max_pages argument
    next_url,       \* paginate local
    current_params, \* paginate local
    page_count,     \* paginate local
    results,        \* paginate local: pages appended so far
    requests,       \* calls of get() so far: endpoint given, URL sent, params sent
    served,         \* what the server answered to each request, in order
    log,            \* levels of the log records emitted so far
    ret,            \* <<>> until the call returns, then <<value>>
    u_endpoint,     \* URL check: the endpoint given to get()
    u_calls,        \* URL check: URLs handed to session.get, per call form
    b_input,        \* brief check: the results argument
    b_output        \* brief check: <<>> until brief returned, then <<value>>

vars == <<pc, op, arg_endpoint, arg_params, max_pages, next_url, current_params,
          page_count, results, requests, served, log, ret,
          u_endpoint, u_calls, b_input, b_output>>

pagVars == <<pc, op, arg_endpoint, arg_params, max_pages, next_url, current_params,
             page_count, results, requests, served, log, ret>>
urlVars == <<u_endpoint, u_calls>>
briefVars == <<b_input, b_output>>

----------------------------------------------------------------------------
(* Bounds *)

\* The server supplies a next link on at most MaxFetch - 1 consecutive pages.
MaxFetch == 3

\* Default of paginate's max_pages parameter.
DefaultMaxPages == 500

\* Default page[size] of the first request.
DefaultPageSize == 100

----------------------------------------------------------------------------
(* Strings as character sequences *)

HttpPrefix == <<"h","t","t","p",":","/","/">>
HttpsPrefix == <<"h","t","t","p","s",":","/","/">>
Slash == <<"/">>

\* base_url passed to API.__init__
base_url == <<"h","t","t","p","s",":","/","/","a","p","i",".",
              "h","a","c","k","e","r","o","n","e",".","c","o","m">>

\* str.startswith
startswith(s, p) ==
    /\ Len(p) <= Len(s)
    /\ SubSeq(s, 1, Len(p)) = p

build_url_noslash(endpoint) ==
    IF startswith(endpoint, HttpPrefix) \/ startswith(endpoint, HttpsPrefix)
    THEN endpoint
    ELSE base_url \o endpoint

\* HackerOneAPI._build_url
build_url(endpoint) ==
    IF startswith(endpoint, HttpPrefix) \/ startswith(endpoint, HttpsPrefix)
    THEN endpoint
    ELSE IF startswith(endpoint, Slash)
         THEN base_url \o endpoint
         ELSE base_url \o Slash \o endpoint

----------------------------------------------------------------------------
(* JSON pages *)

RelNext == <<"/","v","1","/","x","?","p","=","2">>
AbsNext == base_url \o RelNext

NextStrings == {<<>>, RelNext, AbsNext}

NextVals ==
    {[t |-> "missing", s |-> <<>>], [t |-> "null", s |-> <<>>]}
    \cup {[t |-> "str", s |-> s] : s \in NextStrings}

NoNext == [t |-> "missing", s |-> <<>>]

LinksVals ==
    {[t |-> "missing", next |-> NoNext], [t |-> "null", next |-> NoNext]}
    \cup {[t |-> "obj", next |-> n] : n \in NextVals}

DataVals ==
    {[t |-> "missing", v |-> <<>>], [t |-> "null", v |-> <<>>],
     [t |-> "list", v |-> <<"R1">>], [t |-> "list", v |-> <<"R2", "R1">>]}

\* A response body that is JSON but not an object (a list, a string, ...).
NonDictPage ==
    [isDict |-> FALSE, links |-> [t |-> "missing", next |-> NoNext],
     data |-> [t |-> "missing", v |-> <<>>]]

DictPages == {[isDict |-> TRUE, links |-> l, data |-> d] : l \in LinksVals, d \in DataVals}

Pages == DictPages \cup {NonDictPage}

\* The page's links.next is a non-empty string.
SuppliesNext(page) ==
    /\ page.isDict
    /\ page.links.t = "obj"
    /\ page.links.next.t = "str"
    /\ page.links.next.s # <<>>

\* Pages the server can answer request number n with.
ServerPages(n) == IF n < MaxFetch THEN Pages ELSE {p \in Pages : ~SuppliesNext(p)}

----------------------------------------------------------------------------
(* Query parameters *)

None == [t |-> "none", d |-> {}]
Dict(d) == [t |-> "dict", d |-> d]
DefaultParams == Dict({<<"page[size]", DefaultPageSize>>})

\* Python truthiness of an Optional[Dict]
Truthy(params) == params.t = "dict" /\ params.d # {}

CallerParams == {None, Dict({}), Dict({<<"page[size]", 25>>})}

CallerEndpoints == {<<>>, <<"v","1","/","x">>, <<"/","v","1","/","x">>, AbsNext}

CallerMaxPages == 0..MaxFetch

ScopeHandles == {<<"h","1">>}

----------------------------------------------------------------------------
(* paginate and program_info *)

\* program_info's endpoint: f"/v1/hackers/programs/{scope}/structured_scopes"
program_endpoint(scope) ==
    <<"/","v","1","/","h","a","c","k","e","r","s","/",
      "p","r","o","g","r","a","m","s","/">>
    \o scope
    \o <<"/","s","t","r","u","c","t","u","r","e","d","_","s","c","o","p","e","s">>

\* current_params = params or {"page[size]": 100}
initial_params(params) == IF Truthy(params) THEN params ELSE DefaultParams

\* the safety-cap test: page_count >= max_pages
cap_reached(count, cap) == count >= cap

next_link_strict(page) ==
    IF ~page.isDict \/ page.links.t # "obj" \/ page.links.next.t = "missing"
    THEN [t |-> "raise", s |-> <<>>]
    ELSE IF page.links.next.t = "null"
         THEN [t |-> "none", s |-> <<>>]
         ELSE [t |-> "str", s |-> page.links.next.s]

\* response_json.get("links", {}).get("next"): "raise" when a .get is applied
\* to something that is not a mapping, "none" for None, else the string.
next_link(page) ==
    IF ~page.isDict
    THEN [t |-> "raise", s |-> <<>>]
    ELSE IF page.links.t = "missing"
         THEN [t |-> "none", s |-> <<>>]
         ELSE IF page.links.t = "null"
              THEN [t |-> "raise", s |-> <<>>]
              ELSE IF page.links.next.t = "str"
                   THEN [t |-> "str", s |-> page.links.next.s]
                   ELSE [t |-> "none", s |-> <<>>]

\* `not next_link`
falsy(link) == link.t = "none" \/ link.s = <<>>

on_fetch_error_drop(res) == <<>>

\* the except branch: the pages collected so far are kept
on_fetch_error(res) == res

follow_stay(cur, link) == cur

\* next_url = next_link
follow(cur, link) == link

RECURSIVE flatten_rev(_)
flatten_rev(pages) ==
    IF pages = <<>>
    THEN [raise |-> FALSE, data |-> <<>>]
    ELSE LET rest == flatten_rev(Tail(pages))
             page == Head(pages)
         IN  IF page.isDict /\ page.data.t # "missing"
             THEN IF page.data.t = "null" \/ rest.raise
                  THEN [raise |-> TRUE, data |-> <<>>]
                  ELSE [raise |-> FALSE, data |-> rest.data \o page.data.v]
             ELSE rest

\* program_info's loop over the pages: data.extend(page["data"]) for every
\* page that is a dict with a "data" key; extending by None raises.
RECURSIVE flatten(_)
flatten(pages) ==
    IF pages = <<>>
    THEN [raise |-> FALSE, data |-> <<>>]
    ELSE LET page == Head(pages)
             rest == flatten(Tail(pages))
         IN  IF page.isDict /\ page.data.t # "missing"
             THEN IF page.data.t = "null" \/ rest.raise
                  THEN [raise |-> TRUE, data |-> <<>>]
                  ELSE [raise |-> FALSE, data |-> page.data.v \o rest.data]
             ELSE rest

\* What the caller gets once paginate's loop has ended with result list res:
\* paginate returns res; program_info flattens it and wraps it.
outcome(o, res) ==
    IF o = "paginate"
    THEN [pc |-> "done", ret |-> <<res>>]
    ELSE IF flatten(res).raise
         THEN [pc |-> "raised", ret |-> <<>>]
         ELSE [pc |-> "done",
               ret |-> <<[relationships |->
                            [structured_scopes |-> [data |-> flatten(res).data]]]>>]

\* Entry of paginate (lines 62-68) with the loop's first test.
enter(o, endpoint, params, cap) ==
    /\ op' = o
    /\ arg_endpoint' = endpoint
    /\ arg_params' = params
    /\ max_pages' = cap
    /\ results' = <<>>
    /\ next_url' = endpoint
    /\ current_params' = initial_params(params)
    /\ page_count' = 0
    /\ IF endpoint = <<>>
       THEN /\ pc' = outcome(o, <<>>).pc
            /\ ret' = outcome(o, <<>>).ret
       ELSE /\ pc' = "loop"
            /\ ret' = <<>>
    /\ UNCHANGED <<requests, served, log>>

paginate(endpoint, params, cap) ==
    /\ pc = "idle"
    /\ enter("paginate", endpoint, params, cap)
    /\ UNCHANGED <<urlVars, briefVars>>

program_info(scope) ==
    /\ pc = "idle"
    /\ enter("program_info", program_endpoint(scope), None, DefaultMaxPages)
    /\ UNCHANGED <<urlVars, briefVars>>

\* get(next_url, current_params) as issued by the loop body
get_call == [endpoint |-> next_url, url |-> build_url(next_url), params |-> current_params]

\* One loop iteration whose get() raises (non-2xx status).
fetch_fail ==
    /\ pc = "loop"
    /\ page_count' = page_count + 1
    /\ requests' = Append(requests, get_call)
    /\ served' = Append(served, [ok |-> FALSE, page |-> NonDictPage])
    /\ log' = log \o <<"info", "error">>
    /\ results' = on_fetch_error(results)
    /\ pc' = outcome(op, results').pc
    /\ ret' = outcome(op, results').ret
    /\ UNCHANGED <<op, arg_endpoint, arg_params, max_pages, next_url, current_params>>
    /\ UNCHANGED <<urlVars, briefVars>>

\* One loop iteration whose get() returns page.
fetch_ok(page) ==
    /\ pc = "loop"
    /\ page_count' = page_count + 1
    /\ requests' = Append(requests, get_call)
    /\ served' = Append(served, [ok |-> TRUE, page |-> page])
    /\ results' = Append(results, page)
    /\ IF cap_reached(page_count', max_pages)
       THEN /\ log' = log \o <<"info", "warning">>
            /\ pc' = outcome(op, results').pc
            /\ ret' = outcome(op, results').ret
            /\ UNCHANGED <<next_url, current_params>>
       ELSE /\ log' = log \o <<"info">>
            /\ current_params' = None
            /\ IF next_link(page).t = "raise"
               THEN /\ pc' = "raised"
                    /\ ret' = <<>>
                    /\ UNCHANGED next_url
               ELSE IF falsy(next_link(page))
                    THEN /\ pc' = outcome(op, results').pc
                         /\ ret' = outcome(op, results').ret
                         /\ UNCHANGED next_url
                    ELSE /\ pc' = "loop"
                         /\ ret' = <<>>
                         /\ next_url' = follow(next_url, next_link(page).s)
    /\ UNCHANGED <<op, arg_endpoint, arg_params, max_pages>>
    /\ UNCHANGED <<urlVars, briefVars>>

Init ==
    /\ pc = "idle"
    /\ op = "none"
    /\ arg_endpoint = <<>>
    /\ arg_params = None
    /\ max_pages = 0
    /\ next_url = <<>>
    /\ current_params = None
    /\ page_count = 0
    /\ results = <<>>
    /\ requests = <<>>
    /\ served = <<>>
    /\ log = <<>>
    /\ ret = <<>>
    /\ u_endpoint = <<>>
    /\ u_calls = <<>>
    /\ b_input = <<>>
    /\ b_output = <<>>

Next ==
    \/ \E e \in CallerEndpoints, p \in CallerParams, m \in CallerMaxPages : paginate(e, p, m)
    \/ \E s \in ScopeHandles : program_info(s)
    \/ fetch_fail
    \/ \E page \in ServerPages(page_count + 1) : fetch_ok(page)

Spec == Init /\ [][Next]_vars

----------------------------------------------------------------------------
(* Properties of paginate and program_info, checked under Spec *)

Range(seq) == {seq[i] : i \in DOMAIN seq}

returned == pc \in {"done", "raised"}

last_failed == served # <<>> /\ ~served[Len(served)].ok

\* The pages the server delivered successfully, in the order requested.
RECURSIVE ok_pages(_)
ok_pages(sv) ==
    IF sv = <<>> THEN <<>>
    ELSE IF Head(sv).ok THEN <<Head(sv).page>> \o ok_pages(Tail(sv))
         ELSE ok_pages(Tail(sv))

\* C1: when paginate has returned, it has issued at most max_pages GET calls,
\* for every max_pages >= 0 and whatever the server answered.
C1_AtMostMaxPagesFetches ==
    (op = "paginate" /\ returned) => Len(requests) <= max_pages

\* C2: if the fetch of page N fails, paginate raises nothing and returns
\* exactly the N-1 pages fetched before it, in fetch order.
C2_PartialFailure ==
    \A n \in 1..Len(served) :
        ~served[n].ok =>
            /\ pc # "loop"
            /\ results = [i \in 1..(n - 1) |-> served[i].page]
            /\ op = "paginate" => (pc = "done" /\ ret = <<results>>)

C2_Witness ==
    /\ op = "paginate"
    /\ pc = "done"
    /\ Len(served) = 3
    /\ ~served[3].ok
    /\ Len(ret[1]) = 2
    /\ ret[1][1] # ret[1][2]

\* C4: the first fetch of a run carries exactly the caller's params (the
\* default page[size]=100 only when the caller gave none), and every later
\* fetch of the run carries no params.
C4_FirstParamsThenNone ==
    \A k \in 1..Len(requests) :
        IF k = 1
        THEN requests[k].params = (IF arg_params = None THEN DefaultParams ELSE arg_params)
        ELSE requests[k].params = None

\* Number of elements a page contributes to program_info's data.
data_len(page) == IF page.isDict /\ page.data.t = "list" THEN Len(page.data.v) ELSE 0

\* Number of elements contributed by the pages before page i.
RECURSIVE offset(_, _)
offset(pages, i) == IF i <= 1 THEN 0 ELSE offset(pages, i - 1) + data_len(pages[i - 1])

\* C5: program_info returns {relationships: {structured_scopes: {data: D}}}
\* with D the concatenation, in fetch order, of the data arrays of the pages
\* paginate returned; pages without data contribute nothing; nothing is
\* reordered, dropped or duplicated.
C5_FlattenInOrder ==
    (op = "program_info" /\ pc = "done") =>
        /\ DOMAIN ret[1] = {"relationships"}
        /\ DOMAIN ret[1].relationships = {"structured_scopes"}
        /\ DOMAIN ret[1].relationships.structured_scopes = {"data"}
        /\ LET D == ret[1].relationships.structured_scopes.data
           IN  /\ Len(D) = offset(results, Len(results) + 1)
               /\ \A i \in 1..Len(results) :
                      \A j \in 1..data_len(results[i]) :
                          D[offset(results, i) + j] = results[i].data.v[j]

C5_Witness ==
    /\ op = "program_info"
    /\ pc = "done"
    /\ Len(results) = 3
    /\ results[1].data = [t |-> "list", v |-> <<"R1">>]
    /\ results[2].data.t = "missing"
    /\ results[3].data = [t |-> "list", v |-> <<"R2", "R1">>]
    /\ ret[1].relationships.structured_scopes.data = <<"R1", "R2", "R1">>

\* A page whose only defects are missing fields.
missing_only(page) == page.isDict /\ page.links.t # "null" /\ page.data.t # "null"

\* C6: a fetched page with missing fields never makes paginate or
\* program_info raise; a page without links (or without next) is appended and
\* ends pagination normally; a page without data is appended, adds nothing to
\* program_info's data, and pagination continues through its links.next.
C6_MissingFieldsAreAbsence ==
    /\ results = ok_pages(served)
    /\ (\A i \in 1..Len(results) : missing_only(results[i])) => pc # "raised"
    /\ (results # <<>> /\ ~last_failed) =>
          LET last == results[Len(results)]
          IN  /\ (missing_only(last) /\ ~SuppliesNext(last)) => pc # "loop"
              /\ (missing_only(last) /\ SuppliesNext(last)
                    /\ ~cap_reached(page_count, max_pages)) =>
                     (pc = "loop" /\ next_url = last.links.next.s)
    /\ (op = "program_info" /\ pc = "done") =>
          Len(ret[1].relationships.structured_scopes.data)
              = offset(results, Len(results) + 1)

C6_Witness ==
    /\ op = "program_info"
    /\ pc = "done"
    /\ Len(results) = 2
    /\ results[1].data.t = "missing"
    /\ SuppliesNext(results[1])
    /\ results[2].links.t = "missing"
    /\ results[2].data.t = "list"
    /\ ret[1].relationships.structured_scopes.data = results[2].data.v

\* C7: the 'Reached max_pages' warning is logged in a run if and only if the
\* run stopped because of the cap, i.e. its last fetched page still supplied a
\* next link.
C7_WarningIffCapStop ==
    (op = "paginate" /\ returned) =>
        (("warning" \in Range(log))
            <=> (served # <<>> /\ served[Len(served)].ok
                   /\ SuppliesNext(served[Len(served)].page)))

\* C10: no retry and a strictly followed cursor chain: request k+1 is issued
\* only after request k succeeded and targets the links.next of page k; a
\* failed fetch is the last request of the run; the number of requests is the
\* number of pages returned, plus one exactly when the run ended on a failure.
C10_StrictChainNoRetry ==
    /\ Len(requests) = Len(served)
    /\ requests # <<>> => requests[1].endpoint = arg_endpoint
    /\ \A k \in 1..(Len(requests) - 1) :
          /\ served[k].ok
          /\ SuppliesNext(served[k].page)
          /\ requests[k + 1].endpoint = served[k].page.links.next.s
    /\ \A k \in 1..Len(served) : ~served[k].ok => (k = Len(served) /\ pc # "loop")
    /\ (op = "paginate" /\ pc = "done") =>
          Len(requests) = Len(ret[1]) + (IF last_failed THEN 1 ELSE 0)
    /\ returned => Len(requests) = Len(results) + (IF last_failed THEN 1 ELSE 0)

C10_Witness ==
    /\ op = "paginate"
    /\ pc = "done"
    /\ Len(requests) = 3
    /\ requests[2].endpoint = RelNext
    /\ requests[3].endpoint = AbsNext
    /\ last_failed
    /\ Len(ret[1]) = 2

----------------------------------------------------------------------------
(* URL resolution of get(), checked under SpecUrl *)

\* Longest tail appended to a prefix when enumerating endpoints.
MaxTail == 2

\* Number of get() calls observed per endpoint.
MaxCalls == 2

RECURSIVE Tails(_)
Tails(n) ==
    IF n = 0 THEN {<<>>}
    ELSE Tails(n - 1) \cup {t \o <<c>> : t \in Tails(n - 1), c \in {"/", "a"}}

EndpointPrefixes ==
    {<<>>, Slash, <<"v","1","/">>, <<"h","t","t","p">>, <<"h","t","t","p",":","/">>,
     HttpPrefix, HttpsPrefix, <<"h","t","t","p","s",":","/">>,
     <<"H","T","T","P",":","/","/">>, <<"f","t","p",":","/","/">>}

V1Foo == <<"v","1","/","f","o","o">>

UrlEndpoints ==
    {pre \o t : pre \in EndpointPrefixes, t \in Tails(MaxTail)} \cup {V1Foo, RelNext, AbsNext}

\* get(endpoint): the URL handed to session.get
get(endpoint) ==
    /\ Len(u_calls) < MaxCalls
    /\ u_calls' = Append(u_calls, [endpoint |-> endpoint, url |-> build_url(endpoint)])
    /\ UNCHANGED <<u_endpoint, pagVars, briefVars>>

InitUrl ==
    /\ pc = "idle"
    /\ op = "none"
    /\ arg_endpoint = <<>>
    /\ arg_params = None
    /\ max_pages = 0
    /\ next_url = <<>>
    /\ current_params = None
    /\ page_count = 0
    /\ results = <<>>
    /\ requests = <<>>
    /\ served = <<>>
    /\ log = <<>>
    /\ ret = <<>>
    /\ u_endpoint \in UrlEndpoints
    /\ u_calls = <<>>
    /\ b_input = <<>>
    /\ b_output = <<>>

NextUrl ==
    \/ get(u_endpoint)
    \/ get(Slash \o u_endpoint)

SpecUrl == InitUrl /\ [][NextUrl]_vars

is_absolute(e) ==
    \/ (Len(e) >= 7 /\ SubSeq(e, 1, 7) = HttpPrefix)
    \/ (Len(e) >= 8 /\ SubSeq(e, 1, 8) = HttpsPrefix)

\* C9: for every relative path p without a leading slash, get(p) and
\* get("/" + p) request the same URL base_url + "/" + p; an endpoint that
\* starts with http:// or https:// is requested unchanged.
C9_UrlResolution ==
    \A i \in DOMAIN u_calls :
        /\ (~is_absolute(u_endpoint) /\ (u_endpoint = <<>> \/ u_endpoint[1] # "/")
              /\ u_calls[i].endpoint \in {u_endpoint, Slash \o u_endpoint}) =>
                 u_calls[i].url = base_url \o Slash \o u_endpoint
        /\ is_absolute(u_calls[i].endpoint) => u_calls[i].url = u_calls[i].endpoint

C9_Witness ==
    /\ u_endpoint = V1Foo
    /\ Len(u_calls) = 2
    /\ u_calls[1].endpoint = V1Foo
    /\ u_calls[2].endpoint = Slash \o V1Foo
    /\ u_calls[1].url = u_calls[2].url
    /\ u_calls[1].url = base_url \o <<"/","v","1","/","f","o","o">>

----------------------------------------------------------------------------
(* brief, checked under SpecBrief *)

\* Most items in the list given to brief.
MaxItems == 2

\* Most nested scope entries in the whole list given to brief.
MaxScopes == 2

Missing == [t |-> "missing", b |-> FALSE, s |-> ""]
Null == [t |-> "null", b |-> FALSE, s |-> ""]
Bool(b) == [t |-> "bool", b |-> b, s |-> ""]
Str(s) == [t |-> "str", b |-> FALSE, s |-> s]

\* Python truthiness of a JSON scalar
truthy(v) == (v.t = "bool" /\ v.b) \/ (v.t = "str" /\ v.s # "")

NoAttributes == [t |-> "missing", f |-> [k \in {} |-> Missing]]
Attributes(f) == [t |-> "obj", f |-> f]

\* obj.get("attributes", {}).get(key, default)
attr(obj, key, default) ==
    IF obj.attributes.t = "obj" /\ key \in DOMAIN obj.attributes.f
         /\ obj.attributes.f[key].t # "missing"
    THEN obj.attributes.f[key]
    ELSE default

ScopeForms ==
    {[attributes |-> NoAttributes],
     [attributes |-> Attributes([asset_identifier |-> Str("a"), asset_type |-> Str("URL"),
                                 eligible_for_submission |-> Bool(TRUE)])],
     [attributes |-> Attributes([asset_identifier |-> Str("a"), asset_type |-> Str("URL"),
                                 eligible_for_submission |-> Bool(FALSE)])],
     [attributes |-> Attributes([asset_identifier |-> Str("b"),
                                 eligible_for_submission |-> Missing])],
     [attributes |-> Attributes([asset_identifier |-> Str("b"), asset_type |-> Str("CIDR"),
                                 eligible_for_submission |-> Str("yes")])],
     [attributes |-> Attributes([asset_type |-> Str("URL"),
                                 eligible_for_submission |-> Null])]}

ResourceAttributes ==
    {NoAttributes,
     Attributes([handle |-> Str("p1"), offers_bounties |-> Bool(TRUE),
                 submission_state |-> Str("open")]),
     Attributes([handle |-> Str("p2"), offers_bounties |-> Str("yes"),
                 submission_state |-> Str("closed")]),
     Attributes([handle |-> Null, offers_bounties |-> Bool(FALSE)])}

\* relationships.structured_scopes.data: t = "missing" when any key of the
\* chain is absent
NoScopes == [t |-> "missing", v |-> <<>>]
ScopeData(l) == [t |-> "list", v |-> l]

\* An item of the list that is not a JSON object.
NonDictItem == [isDict |-> FALSE, attributes |-> NoAttributes, scopes |-> NoScopes]

RECURSIVE ScopeLists(_)
ScopeLists(k) ==
    IF k = 0 THEN {<<>>}
    ELSE {<<sc>> \o l : sc \in ScopeForms, l \in ScopeLists(k - 1)}

\* The items holding exactly k nested scope entries.
ItemsWith(k) ==
    {[isDict |-> TRUE, attributes |-> a, scopes |-> ScopeData(l)] :
        a \in ResourceAttributes, l \in ScopeLists(k)}
    \cup (IF k = 0
          THEN {NonDictItem}
               \cup {[isDict |-> TRUE, attributes |-> a, scopes |-> NoScopes] :
                        a \in ResourceAttributes}
          ELSE {})

\* b_input is prefix followed by at most n more items that hold at most k
\* nested scope entries.
RECURSIVE BriefInput(_, _, _)
BriefInput(prefix, n, k) ==
    \/ b_input = prefix
    \/ /\ n > 0
       /\ \E j \in 0..k : \E it \in ItemsWith(j) : BriefInput(prefix \o <<it>>, n - 1, k - j)

\* result.get("relationships", {}).get("structured_scopes", {}).get("data", [])
nested_scopes(result) == IF result.scopes.t = "list" THEN result.scopes.v ELSE <<>>

asset_ref(scope) ==
    [identifier |-> attr(scope, "asset_identifier", Str("unknown")),
     type |-> attr(scope, "asset_type", Str("unknown"))]

RECURSIVE select_rev(_, _)
select_rev(scopes, in) ==
    IF scopes = <<>> THEN <<>>
    ELSE LET scope == Head(scopes)
             keep == IF in THEN truthy(attr(scope, "eligible_for_submission", Bool(FALSE)))
                     ELSE ~truthy(attr(scope, "eligible_for_submission", Bool(TRUE)))
         IN  select_rev(Tail(scopes), in) \o (IF keep THEN <<asset_ref(scope)>> ELSE <<>>)

\* The two list comprehensions over the nested scopes: in = TRUE is
\* in_scope (eligible_for_submission, default False, truthy), in = FALSE is
\* out_of_scope (eligible_for_submission, default True, falsy).
RECURSIVE select(_, _)
select(scopes, in) ==
    IF scopes = <<>> THEN <<>>
    ELSE LET scope == Head(scopes)
             keep == IF in THEN truthy(attr(scope, "eligible_for_submission", Bool(FALSE)))
                     ELSE ~truthy(attr(scope, "eligible_for_submission", Bool(TRUE)))
         IN  (IF keep THEN <<asset_ref(scope)>> ELSE <<>>) \o select(Tail(scopes), in)

brief_of(result) ==
    [handle |-> attr(result, "handle", Str("unknown")),
     bounty |-> IF truthy(attr(result, "offers_bounties", Bool(FALSE))) THEN 1 ELSE 0,
     active |-> IF attr(result, "submission_state", Null) = Str("open") THEN 1 ELSE 0,
     assets |-> [in_scope |-> select(nested_scopes(result), TRUE),
                 out_of_scope |-> select(nested_scopes(result), FALSE)]]

\* HackerOneAPI.brief
RECURSIVE brief(_)
brief(rs) ==
    IF rs = <<>> THEN <<>>
    ELSE (IF Head(rs).isDict THEN <<brief_of(Head(rs))>> ELSE <<>>) \o brief(Tail(rs))

brief_call ==
    /\ b_output = <<>>
    /\ b_output' = <<brief(b_input)>>
    /\ UNCHANGED <<b_input, pagVars, urlVars>>

InitBrief ==
    /\ pc = "idle"
    /\ op = "none"
    /\ arg_endpoint = <<>>
    /\ arg_params = None
    /\ max_pages = 0
    /\ next_url = <<>>
    /\ current_params = None
    /\ page_count = 0
    /\ results = <<>>
    /\ requests = <<>>
    /\ served = <<>>
    /\ log = <<>>
    /\ ret = <<>>
    /\ u_endpoint = <<>>
    /\ u_calls = <<>>
    /\ BriefInput(<<>>, MaxItems, MaxScopes)
    /\ b_output = <<>>

NextBrief == brief_call

SpecBrief == InitBrief /\ [][NextBrief]_vars

\* Positions of the structured objects in the input, in input order.
RECURSIVE dict_positions(_, _)
dict_positions(rs, i) ==
    IF i > Len(rs) THEN <<>>
    ELSE (IF rs[i].isDict THEN <<i>> ELSE <<>>) \o dict_positions(rs, i + 1)

\* small is obtained from big by deleting elements (order kept).
RECURSIVE is_subseq(_, _)
is_subseq(small, big) ==
    IF small = <<>> THEN TRUE
    ELSE IF big = <<>> THEN FALSE
         ELSE IF Head(small) = Head(big)
              THEN is_subseq(Tail(small), Tail(big))
              ELSE is_subseq(small, Tail(big))

refs(result) == [j \in 1..Len(nested_scopes(result)) |-> asset_ref(nested_scopes(result)[j])]

\* C3: brief places each of the K nested scope entries of a resource into
\* exactly one of in_scope / out_of_scope, so that their lengths add up to K,
\* entries without eligible_for_submission included (they are out of scope).
C3_PartitionComplete ==
    b_output # <<>> =>
        LET pos == dict_positions(b_input, 1)
        IN  \A i \in 1..Len(pos) :
                LET scopes == nested_scopes(b_input[pos[i]])
                    assets == b_output[1][i].assets
                IN  /\ Len(assets.in_scope) + Len(assets.out_of_scope) = Len(scopes)
                    /\ \A j \in 1..Len(scopes) :
                          attr(scopes[j], "eligible_for_submission", Missing) = Missing =>
                              asset_ref(scopes[j]) \in Range(assets.out_of_scope)

\* C8: brief emits one Brief per structured object of the input, skipping the
\* other items, in input order; within a Brief, in_scope and out_of_scope keep
\* the relative order of the resource's nested scopes.
C8_OrderPreserved ==
    b_output # <<>> =>
        LET pos == dict_positions(b_input, 1)
            out == b_output[1]
        IN  /\ Len(out) = Cardinality({i \in DOMAIN b_input : b_input[i].isDict})
            /\ Len(out) = Len(pos)
            /\ \A i \in 1..Len(pos) :
                  /\ out[i].handle = attr(b_input[pos[i]], "handle", Str("unknown"))
                  /\ is_subseq(out[i].assets.in_scope, refs(b_input[pos[i]]))
                  /\ is_subseq(out[i].assets.out_of_scope, refs(b_input[pos[i]]))
                  /\ Len(out[i].assets.in_scope)
                        = Cardinality({j \in DOMAIN nested_scopes(b_input[pos[i]]) :
                             truthy(attr(nested_scopes(b_input[pos[i]])[j],
                                         "eligible_for_submission", Bool(FALSE)))})

C8_Witness ==
    /\ b_output # <<>>
    /\ Len(b_input) = 2
    /\ ~b_input[1].isDict
    /\ b_input[2].isDict
    /\ Len(b_output[1]) = 1
    /\ b_output[1][1].handle = Str("p1")
    /\ b_output[1][1].assets.in_scope
         = <<[identifier |-> Str("b"), type |-> Str("CIDR")],
             [identifier |-> Str("a"), type |-> Str("URL")]>>

====
